---------------------------- MODULE Spec2Model ----------------------------
(***************************************************************************)
(* Model of package qstat of kisielk/gorge: the task-range parser          *)
(* (NewTaskIDRange, ParseTaskIDRanges) and the task counters               *)
(* (TaskIDRange.NumTasks, QueueJob.NumTasks).                              *)
(*                                                                         *)
(* Strings are sequences of one-character strings.  Go's int, int64 and    *)
(* float64 values do not fit TLC's integers, so an integer is a record     *)
(* [neg, mag] whose magnitude is a sequence of bits, least significant     *)
(* first and without leading zeros, and a float64 is a dyadic rational     *)
(* with a significand of at most MantBits bits.                            *)
(***************************************************************************)
EXTENDS Integers, Sequences, FiniteSets

(***************************************************************************)
(* The({e : x \in {v}}) is e with x standing for the value of v, which is  *)
(* evaluated once, before e: the x := v of the code.  (TLC evaluates the   *)
(* definitions of a LET, and an operator's arguments, every time they are  *)
(* used.)                                                                  *)
(***************************************************************************)
The(S) == CHOOSE x \in S : TRUE

(***************************************************************************)
(* Natural numbers as bit sequences.  The folds over the bits of a number  *)
(* split their range in halves, so that their depth is logarithmic in the  *)
(* number of bits.                                                         *)
(***************************************************************************)
Max2(a, b) == IF a >= b THEN a ELSE b

Min2(a, b) == IF a <= b THEN a ELSE b

\* the highest index in lo..hi at which b holds a 1, or 0
RECURSIVE NTop(_, _, _)
NTop(b, lo, hi) ==
    IF lo > hi THEN 0
    ELSE IF lo = hi THEN (IF b[lo] = 1 THEN lo ELSE 0)
    ELSE The({ IF t # 0 THEN t ELSE NTop(b, lo, (lo + hi) \div 2)
               : t \in {NTop(b, (lo + hi) \div 2 + 1, hi)} })

NTrim(b) == The({ SubSeq(x, 1, NTop(x, 1, Len(x)))
                  : x \in {b} })

RECURSIVE NFromInt(_)
NFromInt(n) == IF n = 0 THEN <<>> ELSE <<n % 2>> \o NFromInt(n \div 2)

NBit(b, i) == IF i >= 1 /\ i <= Len(b) THEN b[i] ELSE 0

\* bits lo..hi of a + b + c, followed by the carry out of bit hi
RECURSIVE NAddRec(_, _, _, _, _)
NAddRec(a, b, lo, hi, c) ==
    IF lo > hi THEN <<c>>
    ELSE IF lo = hi
    THEN The({ <<t % 2, t \div 2>>
               : t \in {NBit(a, lo) + NBit(b, lo) + c} })
    ELSE The({ SubSeq(l, 1, Len(l) - 1)
             \o NAddRec(a, b, (lo + hi) \div 2 + 1, hi, l[Len(l)])
               : l \in {NAddRec(a, b, lo, (lo + hi) \div 2, c)} })

NAdd(a, b) ==
    The({ NTrim(NAddRec(x, y, 1, Max2(Len(x), Len(y)), 0))
          : x \in {a}, y \in {b} })

\* -1, 0 or 1 as bits lo..hi of a are below, equal to or above those of b
RECURSIVE NCmpRec(_, _, _, _)
NCmpRec(a, b, lo, hi) ==
    IF lo > hi THEN 0
    ELSE IF lo = hi
    THEN (IF a[lo] > b[lo] THEN 1 ELSE IF a[lo] < b[lo] THEN -1 ELSE 0)
    ELSE The({ IF t # 0 THEN t ELSE NCmpRec(a, b, lo, (lo + hi) \div 2)
               : t \in {NCmpRec(a, b, (lo + hi) \div 2 + 1, hi)} })

\* -1 when a < b, 0 when a = b, 1 when a > b
NCmp(a, b) ==
    The({ IF Len(x) > Len(y) THEN 1
        ELSE IF Len(x) < Len(y) THEN -1
        ELSE NCmpRec(x, y, 1, Len(x))
          : x \in {a}, y \in {b} })

\* bits lo..hi of a - b - c, followed by the borrow out of bit hi
RECURSIVE NSubRec(_, _, _, _, _)
NSubRec(a, b, lo, hi, c) ==
    IF lo > hi THEN <<c>>
    ELSE IF lo = hi
    THEN The({ IF t < 0 THEN <<t + 2, 1>> ELSE <<t, 0>>
               : t \in {NBit(a, lo) - NBit(b, lo) - c} })
    ELSE The({ SubSeq(l, 1, Len(l) - 1)
             \o NSubRec(a, b, (lo + hi) \div 2 + 1, hi, l[Len(l)])
               : l \in {NSubRec(a, b, lo, (lo + hi) \div 2, c)} })

\* a - b, for a >= b
NSub(a, b) ==
    The({ The({ NTrim(SubSeq(d, 1, Len(d) - 1))
                : d \in {NSubRec(x, y, 1, Len(x), 0)} })
          : x \in {a}, y \in {b} })

NShl(a, k) == The({ IF x = <<>> THEN <<>> ELSE [i \in 1..k |-> 0] \o x
                    : x \in {a} })

NShr(a, k) ==
    The({ IF n >= Len(x) THEN <<>> ELSE SubSeq(x, n + 1, Len(x))
          : x \in {a}, n \in {k} })

\* a mod 2^k
NLow(a, k) == The({ NTrim(SubSeq(x, 1, Min2(n, Len(x))))
                    : x \in {a}, n \in {k} })

NPow2(k) == [i \in 1..k |-> 0] \o <<1>>

\* binary long division by b > 0 over bits hi down to lo of a, from the
\* state qr = <<quotient so far, remainder so far>>
RECURSIVE NDivRec(_, _, _, _, _)
NDivRec(a, b, hi, lo, qr) ==
    IF hi < lo THEN qr
    ELSE IF hi = lo
    THEN The({ IF NCmp(r2, b) >= 0
             THEN <<(<<1>> \o qr[1]), NSub(r2, b)>>
             ELSE <<(<<0>> \o qr[1]), r2>>
               : r2 \in {NTrim(<<a[hi]>> \o qr[2])} })
    ELSE The({ NDivRec(a, b, (lo + hi) \div 2, lo, st)
               : st \in {NDivRec(a, b, hi, (lo + hi) \div 2 + 1, qr)} })

\* bits per digit of the short division: two digits fit a TLC integer
LimbBits == 30 \div 2

\* the value of bits i.. of b, for a b of at most 2 * LimbBits bits
RECURSIVE NToIntRec(_, _)
NToIntRec(b, i) == IF i > Len(b) THEN 0 ELSE b[i] + 2 * NToIntRec(b, i + 1)

NToInt(b) == The({ NToIntRec(x, 1)
                   : x \in {b} })

\* the LimbBits low bits of n
LimbOf(n) == The({ [i \in 1..LimbBits |-> (v \div 2^(i - 1)) % 2]
                   : v \in {n} })

\* short division by d, 0 < d < 2^LimbBits, over digits j down to 1 of a,
\* from remainder rem: <<quotient bits, remainder>>
RECURSIVE NDivSmallRec(_, _, _, _)
NDivSmallRec(a, d, j, rem) ==
    IF j = 0 THEN <<(<<>>), rem>>
    ELSE The({ The({ <<rest[1] \o LimbOf(v \div d), rest[2]>>
                     : rest \in {NDivSmallRec(a, d, j - 1, v % d)} })
               : v \in {rem * 2^LimbBits
                        + NToInt(SubSeq(a, (j - 1) * LimbBits + 1,
                                        Min2(j * LimbBits, Len(a))))} })

\* <<quotient, remainder>> of a by b, b > 0: short division when b is one
\* digit, binary long division otherwise
NDivMod(a, b) ==
    The({ IF Len(y) <= LimbBits
        THEN The({ The({ <<NTrim(qr[1]), NFromInt(qr[2])>>
                         : qr \in {NDivSmallRec(x, d, j, 0)} })
                   : d \in {NToInt(y)},
                     j \in {(Len(x) + LimbBits - 1) \div LimbBits} })
        ELSE The({ <<NTrim(qr[1]), qr[2]>>
                   : qr \in {NDivRec(x, y, Len(x), 1, <<(<<>>), (<<>>)>>)} })
          : x \in {a}, y \in {b} })

(***************************************************************************)
(* Signed integers.                                                        *)
(***************************************************************************)
ZMk(neg, mag) == The({ [neg |-> neg /\ m # <<>>, mag |-> m]
                       : m \in {mag} })

Z(n) == IF n < 0 THEN ZMk(TRUE, NFromInt(-n)) ELSE ZMk(FALSE, NFromInt(n))

ZNeg(x) == The({ ZMk(~a.neg, a.mag)
                 : a \in {x} })

ZAdd(x, y) ==
    The({ IF a.neg = b.neg THEN ZMk(a.neg, NAdd(a.mag, b.mag))
        ELSE IF NCmp(a.mag, b.mag) >= 0 THEN ZMk(a.neg, NSub(a.mag, b.mag))
        ELSE ZMk(b.neg, NSub(b.mag, a.mag))
          : a \in {x}, b \in {y} })

ZSub(x, y) == ZAdd(x, ZNeg(y))

ZCmp(x, y) ==
    The({ IF a.neg /\ ~b.neg THEN -1
        ELSE IF ~a.neg /\ b.neg THEN 1
        ELSE IF a.neg THEN NCmp(b.mag, a.mag)
        ELSE NCmp(a.mag, b.mag)
          : a \in {x}, b \in {y} })

ZLe(x, y) == ZCmp(x, y) <= 0

ZLt(x, y) == ZCmp(x, y) < 0

(***************************************************************************)
(* Go's numeric types.                                                     *)
(***************************************************************************)
\* the bitSize argument of strconv.ParseInt: min, max and step are int64
BitSize == 64

\* the widths Go's int can have (strconv.IntSize); a build has one of them
IntSizes == {32, 64}

\* precision of a float64 significand
MantBits == 53

MaxInt(w) == ZMk(FALSE, NSub(NPow2(w - 1), <<1>>))

MinInt(w) == ZMk(TRUE, NPow2(w - 1))

FitsInt(z, w) == The({ ZLe(MinInt(w), v) /\ ZLe(v, MaxInt(w))
                       : v \in {z} })

\* conversion between integer types: the value is truncated to w bits and
\* read as a two's complement number
IntWrap(z, w) ==
    The({ The({ The({ IF Len(u) = w THEN ZMk(TRUE, NSub(NPow2(w), u))
                      ELSE ZMk(FALSE, u)
                      : u \in {IF v.neg /\ low # <<>> THEN NSub(NPow2(w), low)
                               ELSE low} })
                : low \in {NLow(v.mag, w)} })
          : v \in {z} })

\* m rounded to p significant bits, ties to even; sticky says that the exact
\* value lies strictly above m (bits lost before m was formed)
NRound(m, sticky, p) ==
    The({ IF Len(x) <= p THEN x
        ELSE The({ IF x[d] = 1 /\ (sticky \/ NLow(x, d - 1) # <<>> \/ x[d + 1] = 1)
                 THEN NShl(NAdd(kept, <<1>>), d)
                 ELSE NShl(kept, d)
                   : d \in {Len(x) - p}, kept \in {NShr(x, Len(x) - p)} })
          : x \in {m} })

\* a float64: cls "fin" is (neg ? -1 : 1) * m / 2^k, else an infinity or NaN
FMk(neg, m, k) == [cls |-> "fin", neg |-> neg, m |-> m, k |-> k]

FInf(neg) == [cls |-> "inf", neg |-> neg, m |-> <<>>, k |-> 0]

FNaN == [cls |-> "nan", neg |-> FALSE, m |-> <<>>, k |-> 0]

\* float64(i) for an integer i
Float64(z) == The({ FMk(v.neg, NRound(v.mag, FALSE, MantBits), 0)
                    : v \in {z} })

\* x + y, correctly rounded (the operands here are always finite)
FAdd(x, y) ==
    The({ IF a.cls # "fin" THEN a
        ELSE IF b.cls # "fin" THEN b
        ELSE The({ The({ FMk(sum.neg, NRound(sum.mag, FALSE, MantBits), k)
                         : sum \in {ZAdd(ZMk(a.neg, NShl(a.m, k - a.k)),
                                         ZMk(b.neg, NShl(b.m, k - b.k)))} })
                   : k \in {Max2(a.k, b.k)} })
          : a \in {x}, b \in {y} })

FSub(x, y) == FAdd(x, The({ [b EXCEPT !.neg = ~b.neg]
                            : b \in {y} }))

\* x / y, correctly rounded; x / 0 is an infinity, 0 / 0 is NaN
FDiv(x, y) ==
    The({ IF a.cls # "fin" THEN a
        ELSE IF b.cls # "fin" THEN FNaN
        ELSE IF b.m = <<>> THEN (IF a.m = <<>> THEN FNaN ELSE FInf(a.neg # b.neg))
        ELSE IF a.m = <<>> THEN FMk(a.neg # b.neg, <<>>, 0)
        ELSE The({ The({ The({ IF e >= 0 THEN FMk(a.neg # b.neg, q, e)
                               ELSE FMk(a.neg # b.neg, NShl(q, -e), 0)
                               : q \in {NRound(qr[1], qr[2] # <<>>, MantBits)},
                                 e \in {K + a.k - b.k} })
                         : qr \in {NDivMod(NShl(a.m, K), b.m)} })
                   : K \in {Max2(0, MantBits + 2 + Len(b.m) - Len(a.m))} })
          : a \in {x}, b \in {y} })

\* math.Ceil
Ceil(x) ==
    The({ IF a.cls # "fin" \/ a.k = 0 THEN a
        ELSE The({ IF a.neg \/ ~frac THEN FMk(a.neg /\ fl # <<>>, fl, 0)
                 ELSE FMk(FALSE, NAdd(fl, <<1>>), 0)
                   : fl \in {NShr(a.m, a.k)}, frac \in {NLow(a.m, a.k) # <<>>} })
          : a \in {x} })

\* What int(f) gives when f is outside int's range: the Go specification
\* leaves it to the implementation.  "indefinite" is the x86 family (the
\* smallest int, whatever f), "saturate" the ARM family (clamped, NaN is 0).
FConvs == {"indefinite", "saturate"}

\* int(f) for a float64 f, on a build with w-bit ints
IntOfFloat(x, w, fc) ==
    The({ The({ IF a.cls = "fin" /\ FitsInt(z, w) THEN z
                ELSE IF fc = "indefinite" THEN MinInt(w)
                ELSE IF a.cls = "nan" THEN Z(0)
                ELSE IF a.neg THEN MinInt(w)
                ELSE MaxInt(w)
                : z \in {ZMk(a.neg, NShr(a.m, a.k))} })
          : a \in {x} })

(***************************************************************************)
(* Strings.                                                                *)
(***************************************************************************)
DigitChars == <<"0", "1", "2", "3", "4", "5", "6", "7", "8", "9">>

IsDigit(c) == \E i \in 1..Len(DigitChars) : DigitChars[i] = c

DigitVal(c) == (CHOOSE i \in 1..Len(DigitChars) : DigitChars[i] = c) - 1

\* strings.Split(str, sep) for a one-character separator
RECURSIVE SplitRec(_, _, _, _, _)
SplitRec(str, sep, i, cur, acc) ==
    IF i > Len(str) THEN Append(acc, cur)
    ELSE IF str[i] = sep
    THEN The({ SplitRec(str, sep, i + 1, <<>>, acc2)
               : acc2 \in {Append(acc, cur)} })
    ELSE The({ SplitRec(str, sep, i + 1, cur2, acc)
               : cur2 \in {Append(cur, str[i])} })

Split(str, sep) == The({ SplitRec(x, sep, 1, <<>>, <<>>)
                         : x \in {str} })

\* strconv.ParseUint(str, 10, BitSize)
RECURSIVE ParseUintRec(_, _, _)
ParseUintRec(str, i, n) ==
    IF i > Len(str) THEN [err |-> "nil", un |-> n]
    ELSE IF ~IsDigit(str[i]) THEN [err |-> "ErrSyntax", un |-> <<>>]
    ELSE The({ IF Len(n1) > BitSize THEN [err |-> "ErrRange", un |-> <<>>]
             ELSE ParseUintRec(str, i + 1, n1)
               : n1 \in {NAdd(NAdd(NShl(n, 3), NShl(n, 1)), NFromInt(DigitVal(str[i])))} })

ParseUint(str) ==
    The({ IF x = <<>> THEN [err |-> "ErrSyntax", un |-> <<>>] ELSE ParseUintRec(x, 1, <<>>)
          : x \in {str} })

\* strconv.ParseInt(str, 10, BitSize): an optional sign, then decimal digits;
\* a value outside int64 is an error
ParseInt(str) ==
    The({ IF x = <<>> THEN [err |-> "ErrSyntax", val |-> Z(0)]
        ELSE The({ The({ IF u.err # "nil" THEN [err |-> u.err, val |-> Z(0)]
                         ELSE IF ~FitsInt(v, BitSize)
                         THEN [err |-> "ErrRange", val |-> Z(0)]
                         ELSE [err |-> "nil", val |-> v]
                         : v \in {ZMk(x[1] = "-", u.un)} })
                   : u \in {ParseUint(IF x[1] = "+" \/ x[1] = "-" THEN Tail(x)
                                      ELSE x)} })
          : x \in {str} })

(***************************************************************************)
(* Errors: nil, or fmt.Errorf(format, arg).                                *)
(***************************************************************************)
NilError == [nil |-> TRUE, format |-> "", arg |-> <<>>]

Errorf(format, arg) == [nil |-> FALSE, format |-> format, arg |-> arg]

InvalidMin(tok) == Errorf("could not parse: invalid min (%s)", tok)

InvalidMax(tok) == Errorf("could not parse: invalid max (%s)", tok)

InvalidStep(tok) == Errorf("could not parse: invalid step (%s)", tok)

\* MalformedRange carrying the text of MalformedStep
MalformedRangeStepText ==
    Errorf("could not parse: too many elements in step split", <<>>)

MalformedRange == Errorf("could not parse: too many elements in parts split", <<>>)

MalformedStep == Errorf("could not parse: too many elements in step split", <<>>)

(***************************************************************************)
(* TaskIDRange.                                                            *)
(***************************************************************************)
TaskIDRange(min, max, step) == [Min |-> min, Max |-> max, Step |-> step]

\* TaskIDRange{}
ZeroRange == TaskIDRange(Z(0), Z(0), Z(0))

\* NumTasks with a negative result clamped to 0
NumTasksClamped(r, w, fc) ==
    The({ IF n.neg THEN Z(0) ELSE n
          : n \in {IntOfFloat(Ceil(FDiv(FAdd(FSub(Float64(r.Max),
                                                 Float64(r.Min)),
                                            Float64(Z(1))),
                                       Float64(r.Step))),
                              w, fc)} })

\* r.NumTasks() on a build with w-bit ints
NumTasks(r, w, fc) ==
    The({ IntOfFloat(Ceil(FDiv(FAdd(FSub(max, min), Float64(Z(1))), step)),
                     w, fc)
          : min \in {Float64(r.Min)}, max \in {Float64(r.Max)},
            step \in {Float64(r.Step)} })

\* NewTaskIDRangeTail without "if len(tail) > 2": what follows the second
\* ":" is ignored
NewTaskIDRangeTailLax(tail, min, w) ==
    The({ IF step.err # "nil"
          THEN [r |-> ZeroRange, err |-> InvalidStep(tail[2])]
          ELSE The({ IF max.err # "nil"
                     THEN [r |-> ZeroRange, err |-> InvalidMax(tail[1])]
                     ELSE [r   |-> TaskIDRange(IntWrap(min.val, w),
                                               IntWrap(max.val, w),
                                               IntWrap(step.val, w)),
                           err |-> NilError]
                     : max \in {ParseInt(tail[1])} })
          : step \in {IF Len(tail) >= 2 THEN ParseInt(tail[2])
                      ELSE [err |-> "nil", val |-> Z(1)]} })

\* NewTaskIDRangeTail with max parsed before step
NewTaskIDRangeTailMaxFirst(tail, min, w) ==
    IF Len(tail) > 2 THEN [r |-> ZeroRange, err |-> MalformedStep]
    ELSE The({ IF max.err # "nil"
               THEN [r |-> ZeroRange, err |-> InvalidMax(tail[1])]
               ELSE The({ IF step.err # "nil"
                          THEN [r |-> ZeroRange, err |-> InvalidStep(tail[2])]
                          ELSE [r   |-> TaskIDRange(IntWrap(min.val, w),
                                                    IntWrap(max.val, w),
                                                    IntWrap(step.val, w)),
                                err |-> NilError]
                          : step \in {IF Len(tail) = 2 THEN ParseInt(tail[2])
                                      ELSE [err |-> "nil", val |-> Z(1)]} })
               : max \in {ParseInt(tail[1])} })

\* NewTaskIDRange(str) from "tail := strings.Split(parts[1], ":")" on
NewTaskIDRangeTail(tail, min, w) ==
    IF Len(tail) > 2 THEN [r |-> ZeroRange, err |-> MalformedStep]
    ELSE The({ IF step.err # "nil"
               THEN [r |-> ZeroRange, err |-> InvalidStep(tail[2])]
               ELSE The({ IF max.err # "nil"
                          THEN [r |-> ZeroRange, err |-> InvalidMax(tail[1])]
                          ELSE [r   |-> TaskIDRange(IntWrap(min.val, w),
                                                    IntWrap(max.val, w),
                                                    IntWrap(step.val, w)),
                                err |-> NilError]
                          : max \in {ParseInt(tail[1])} })
               : step \in {IF Len(tail) = 2 THEN ParseInt(tail[2])
                           ELSE [err |-> "nil", val |-> Z(1)]} })

\* NewTaskIDRangeParts without "if len(parts) > 2": what follows the second
\* "-" is ignored
NewTaskIDRangePartsLax(parts, min, w) ==
    IF min.err # "nil" THEN [r |-> ZeroRange, err |-> InvalidMin(parts[1])]
    ELSE IF Len(parts) >= 2
    THEN The({ NewTaskIDRangeTail(tail, min, w)
               : tail \in {Split(parts[2], ":")} })
    ELSE [r   |-> TaskIDRange(IntWrap(min.val, w), IntWrap(min.val, w),
                              IntWrap(Z(1), w)),
          err |-> NilError]

\* NewTaskIDRangeParts with "if len(parts) > 2" before the error of min is
\* looked at
NewTaskIDRangePartsCountFirst(parts, min, w) ==
    IF Len(parts) > 2 THEN [r |-> ZeroRange, err |-> MalformedRange]
    ELSE IF min.err # "nil" THEN [r |-> ZeroRange, err |-> InvalidMin(parts[1])]
    ELSE IF Len(parts) = 2
    THEN The({ NewTaskIDRangeTail(tail, min, w)
               : tail \in {Split(parts[2], ":")} })
    ELSE [r   |-> TaskIDRange(IntWrap(min.val, w), IntWrap(min.val, w),
                              IntWrap(Z(1), w)),
          err |-> NilError]

\* NewTaskIDRange(str) from "parts := strings.Split(str, "-")" on, min parsed
NewTaskIDRangeParts(parts, min, w) ==
    IF min.err # "nil" THEN [r |-> ZeroRange, err |-> InvalidMin(parts[1])]
    ELSE IF Len(parts) > 2 THEN [r |-> ZeroRange, err |-> MalformedRange]
    ELSE IF Len(parts) = 2
    THEN The({ NewTaskIDRangeTail(tail, min, w)
               : tail \in {Split(parts[2], ":")} })
    ELSE [r   |-> TaskIDRange(IntWrap(min.val, w), IntWrap(min.val, w),
                              IntWrap(Z(1), w)),
          err |-> NilError]

\* NewTaskIDRange without "if s == """: the blank string is parsed like any
\* other
NewTaskIDRangeNoBlank(str, w) ==
    The({ The({ NewTaskIDRangeParts(parts, min, w)
                : min \in {ParseInt(parts[1])} })
          : parts \in {Split(str, "-")} })

\* NewTaskIDRange trying the whole string as one number first, so that a
\* signed number is a range of one
NewTaskIDRangeSigned(str, w) ==
    The({ IF whole.err = "nil"
          THEN [r   |-> TaskIDRange(IntWrap(whole.val, w), IntWrap(whole.val, w),
                                    IntWrap(Z(1), w)),
                err |-> NilError]
          ELSE IF str = <<>>
          THEN [r |-> TaskIDRange(Z(1), Z(1), Z(1)), err |-> NilError]
          ELSE The({ The({ NewTaskIDRangeParts(parts, min, w)
                           : min \in {ParseInt(parts[1])} })
                     : parts \in {Split(str, "-")} })
          : whole \in {ParseInt(str)} })

\* NewTaskIDRange(str) on a build with w-bit ints: [r, err]
NewTaskIDRange(str, w) ==
    The({ IF x = <<>>
          THEN [r |-> TaskIDRange(Z(1), Z(1), Z(1)), err |-> NilError]
          ELSE The({ The({ NewTaskIDRangeParts(parts, min, w)
                           : min \in {ParseInt(parts[1])} })
                     : parts \in {Split(x, "-")} })
          : x \in {str} })

\* the loop of ParseTaskIDRanges
RECURSIVE ParseLoop(_, _, _, _)
ParseLoop(rangeStrings, i, ranges, w) ==
    IF i > Len(rangeStrings) THEN [ranges |-> ranges, err |-> NilError]
    ELSE The({ IF ~res.err.nil THEN [ranges |-> <<>>, err |-> res.err]
             ELSE The({ ParseLoop(rangeStrings, i + 1, ranges2, w)
                        : ranges2 \in {Append(ranges, res.r)} })
               : res \in {NewTaskIDRange(rangeStrings[i], w)} })

\* the loop of ParseTaskIDRanges returning, on an error, the ranges parsed so
\* far in place of []TaskIDRange{}
RECURSIVE ParseLoopKeep(_, _, _, _)
ParseLoopKeep(rangeStrings, i, ranges, w) ==
    IF i > Len(rangeStrings) THEN [ranges |-> ranges, err |-> NilError]
    ELSE The({ IF ~res.err.nil THEN [ranges |-> ranges, err |-> res.err]
               ELSE The({ ParseLoopKeep(rangeStrings, i + 1, ranges2, w)
                          : ranges2 \in {Append(ranges, res.r)} })
               : res \in {NewTaskIDRange(rangeStrings[i], w)} })

\* ParseTaskIDRanges with that loop
ParseTaskIDRangesKeep(str, w) ==
    The({ ParseLoopKeep(rangeStrings, 1, <<>>, w)
          : rangeStrings \in {Split(str, ",")} })

\* a segment that is not the empty string
NotBlank(seg) == seg # <<>>

\* ParseTaskIDRanges passing over the empty segments
ParseTaskIDRangesSkipBlank(str, w) ==
    The({ ParseLoop(rangeStrings, 1, <<>>, w)
          : rangeStrings \in {SelectSeq(Split(str, ","), NotBlank)} })

\* ParseTaskIDRanges(str): [ranges, err]
ParseTaskIDRanges(str, w) ==
    The({ ParseLoop(rangeStrings, 1, <<>>, w)
          : rangeStrings \in {Split(str, ",")} })

\* the loop of QueueJob.NumTasks: n += r.NumTasks(), in w-bit arithmetic
RECURSIVE SumLoop(_, _, _, _, _)
SumLoop(IDRanges, i, n, w, fc) ==
    IF i > Len(IDRanges) THEN n
    ELSE The({ SumLoop(IDRanges, i + 1, n2, w, fc)
               : n2 \in {IntWrap(ZAdd(n, NumTasks(IDRanges[i], w, fc)), w)} })

\* QueueJob.NumTasks returning n's zero value when the string does not parse
QueueJobNumTasksZero(tasks, w, fc) ==
    The({ IF ~res.err.nil THEN Z(0)
          ELSE SumLoop(res.ranges, 1, Z(0), w, fc)
          : res \in {ParseTaskIDRanges(tasks, w)} })

\* j.NumTasks() for a QueueJob j with j.Tasks = tasks
QueueJobNumTasks(tasks, w, fc) ==
    The({ IF ~res.err.nil THEN Z(1)
          ELSE SumLoop(res.ranges, 1, Z(0), w, fc)
          : res \in {ParseTaskIDRanges(tasks, w)} })

(***************************************************************************)
(* The state predicates of QueueJob.                                       *)
(***************************************************************************)
\* strings.Contains(str, substr)
Contains(str, substr) ==
    \E i \in 1..(Len(str) + 1) :
        /\ i + Len(substr) - 1 <= Len(str)
        /\ SubSeq(str, i, i + Len(substr) - 1) = substr

DeletionState(State) == Contains(State, <<"d">>)

ErrorState(State) == Contains(State, <<"E">>)

HoldState(State) == Contains(State, <<"h">>)

\* RunningState looking for either case of its letter
RunningStateAnyCase(State) ==
    Contains(State, <<"r">>) \/ Contains(State, <<"R">>)

RunningState(State) == Contains(State, <<"r">>)

RestartedState(State) == Contains(State, <<"R">>)

SuspendedState(State) == Contains(State, <<"s">>)

QueueSuspendedState(State) == Contains(State, <<"S">>)

TransferringState(State) == Contains(State, <<"t">>)

ThresholdState(State) == Contains(State, <<"T">>)

WaitingState(State) == Contains(State, <<"w">>)

QueuedState(State) == Contains(State, <<"q">>)

\* the eleven predicates of a QueueJob with this State
StatePredicates(State) ==
    [DeletionState       |-> DeletionState(State),
     ErrorState          |-> ErrorState(State),
     HoldState           |-> HoldState(State),
     RunningState        |-> RunningState(State),
     RestartedState      |-> RestartedState(State),
     SuspendedState      |-> SuspendedState(State),
     QueueSuspendedState |-> QueueSuspendedState(State),
     TransferringState   |-> TransferringState(State),
     ThresholdState      |-> ThresholdState(State),
     WaitingState        |-> WaitingState(State),
     QueuedState         |-> QueuedState(State)]

(***************************************************************************)
(* Qstat and its callers.  A text (an error's message, an argument of the  *)
(* command) is a sequence of pieces; what running qstat does is the        *)
(* environment's choice, a record run: kind "ok" (the output decoded),     *)
(* "pipe" (no stdout pipe), "start" (the command did not start) or         *)
(* "decode" (the output did not decode), with the text of the error.       *)
(***************************************************************************)
\* the message of the XML decoder that GetDetailedJobInfo looks for
UnknownJobSyntaxError ==
    "XML syntax error on line 3: expected element name after <"

\* err.Error() of an error made by fmt.Errorf(format, arg), for the formats
\* of Qstat and GetDetailedJobInfo
ErrorText(err) ==
    IF err.format = "qstat: could not get stdout: %s"
    THEN <<"qstat: could not get stdout: ">> \o err.arg
    ELSE IF err.format = "qstat: could not start qstat: %s"
    THEN <<"qstat: could not start qstat: ">> \o err.arg
    ELSE IF err.format = "qstat: could not decode output: %s"
    THEN <<"qstat: could not decode output: ">> \o err.arg
    ELSE IF err.format = "qstat: unknown job: %s"
    THEN <<"qstat: unknown job: ">> \o err.arg
    ELSE <<err.format>>

\* Qstat(result, args...): the command it runs, and its error
Qstat(args, run) ==
    [cmd |-> <<"qstat", "-xml">> \o args,
     err |-> IF run.kind = "pipe"
             THEN Errorf("qstat: could not get stdout: %s", run.text)
             ELSE IF run.kind = "start"
             THEN Errorf("qstat: could not start qstat: %s", run.text)
             ELSE IF run.kind = "decode"
             THEN Errorf("qstat: could not decode output: %s", run.text)
             ELSE NilError]

\* GetDetailedJobInfo returning the error of Qstat as it is
GetDetailedJobInfoRaw(pattern, run) ==
    The({ IF ~res.err.nil THEN [q |-> "nil", err |-> res.err, cmd |-> res.cmd]
          ELSE [q |-> "DetailedJobInfo", err |-> NilError, cmd |-> res.cmd]
          : res \in {Qstat(<<"-j", pattern>>, run)} })

\* GetDetailedJobInfo(pattern): [q, err], and the command that was run
GetDetailedJobInfo(pattern, run) ==
    The({ IF ~res.err.nil
          THEN IF Contains(ErrorText(res.err), <<UnknownJobSyntaxError>>)
               THEN [q   |-> "nil",
                     err |-> Errorf("qstat: unknown job: %s", <<pattern>>),
                     cmd |-> res.cmd]
               ELSE [q |-> "nil", err |-> res.err, cmd |-> res.cmd]
          ELSE [q |-> "DetailedJobInfo", err |-> NilError, cmd |-> res.cmd]
          : res \in {Qstat(<<"-j", pattern>>, run)} })

\* GetQueueInfo(u): [q, err], and the command that was run
GetQueueInfo(u, run) ==
    The({ The({ IF ~res.err.nil
                THEN [q |-> "nil", err |-> res.err, cmd |-> res.cmd]
                ELSE [q |-> "QueueInfo", err |-> NilError, cmd |-> res.cmd]
                : res \in {Qstat(<<"-pri", "-ext", "-urg", "-u", u2>>, run)} })
          : u2 \in {IF u = "" THEN "*" ELSE u} })

(***************************************************************************)
(* Package arco: the queries of the accounting database that return many   *)
(* rows.  What the database does in a call is the environment's choice, a  *)
(* record res: query is the error of d.db.Query; rows are the rows for     *)
(* which rows.Next() returns true, in order; rowsErr is rows.Err() once    *)
(* rows.Next() has returned false, nil at the end of the rows and the      *)
(* error that stopped the iteration otherwise.                             *)
(***************************************************************************)
\* an error of database/sql or of the driver
SqlError(text) == [nil |-> FALSE, format |-> text, arg |-> <<>>]

\* rows.Scan(...) and row.Scan(...): [val, err]; a NULL does not scan into
\* the fields of the records
Scan(row) ==
    IF row = "NULL"
    THEN [val |-> "", err |-> SqlError("sql: Scan error: converting NULL")]
    ELSE [val |-> row, err |-> NilError]

\* scanAccounting(r): [a, err]
scanAccounting(row) ==
    The({ [a |-> sc.val, err |-> sc.err] : sc \in {Scan(row)} })

\* "for rows.Next() { ... }" and the return of QueryAccounting and of
\* QueryAccountingTimes
RECURSIVE AccountingLoop(_, _, _)
AccountingLoop(res, i, as) ==
    IF i > Len(res.rows) THEN [list |-> as, err |-> res.rowsErr]
    ELSE The({ IF ~sc.err.nil THEN [list |-> <<>>, err |-> sc.err]
               ELSE The({ AccountingLoop(res, i + 1, as2)
                          : as2 \in {Append(as, sc.a)} })
               : sc \in {scanAccounting(res.rows[i])} })

\* d.QueryAccounting(j): [list, err]
QueryAccounting(res) ==
    The({ IF ~err.nil THEN [list |-> <<>>, err |-> err]
          ELSE AccountingLoop(res, 1, <<>>)
          : err \in {res.query} })

\* d.QueryAccountingTimes(start, end): [list, err]
QueryAccountingTimes(res) ==
    The({ IF ~err.nil THEN [list |-> <<>>, err |-> err]
          ELSE AccountingLoop(res, 1, <<>>)
          : err \in {res.query} })

\* "for rows.Next() { ... }" and the return of QueryLogs; err is the variable
\* of "rows, err := d.db.Query(logQuery, j, t)", the err of the loop's body
\* being another variable
RECURSIVE LogsLoop(_, _, _, _)
LogsLoop(res, i, logs, err) ==
    IF i > Len(res.rows) THEN [list |-> logs, err |-> err]
    ELSE The({ IF ~sc.err.nil THEN [list |-> <<>>, err |-> sc.err]
               ELSE The({ LogsLoop(res, i + 1, logs2, err)
                          : logs2 \in {Append(logs, sc.val)} })
               : sc \in {Scan(res.rows[i])} })

\* d.QueryLogs(j, t): [list, err]
QueryLogs(res) ==
    The({ IF ~err.nil THEN [list |-> <<>>, err |-> err]
          ELSE LogsLoop(res, 1, <<>>, err)
          : err \in {res.query} })

(***************************************************************************)
(* The calls and their arguments.                                          *)
(***************************************************************************)
\* longest string enumerated over Chars
MaxLen == 3

\* |Min| and |Max| of the ranges enumerated
MaxVal == 3

\* largest Step of the ranges enumerated
MaxStep == 2

Chars == {"0", "1", "2", "-", ":", ",", "a"}

ShortExprs == UNION {[1..n -> Chars] : n \in 0..MaxLen}

\* expressions of the tests and of the documentation, and malformed ones
Examples ==
    { <<"1">>,
      <<"1", "6">>,
      <<"1", "-", "1", "0">>,
      <<"1", "-", "1", "0", ":", "3">>,
      <<"6", "-", "8">>,
      <<"1", "-", "1", "0", ":", "3", ":", "4">>,
      <<"1", "-", "-", "1", "0">>,
      <<"6", "-", "8", ",", "1", "-", "3">>,
      <<"n", "o", "t", "-", "a", "-", "r", "a", "n", "g", "e">>,
      <<"1", "-", "5", ",", "3", "-", "7">>,
      <<"1", "-", "1", "0", ":", "2">>,
      <<"1", "-", "1", "0", ":", "0">>,
      <<"-", "5">>,
      <<"a", "-", "1", "-", "2">>,
      <<"-", "1", "-", "5">>,
      <<"1", "-", "x", ":", "y">>,
      <<"1", "-">>,
      <<"1", "-", "5", ":">>,
      <<"6", "-", "8", ",">>,
      <<"a", "-", "1", ":", "2", ":", "3">>,
      <<"1", "-", "1", ":", "1", ":", "1">>,
      <<"x", "-", "1", "-", "y">>,
      <<"+", "5">>,
      <<"1", "-", "+", "3">>,
      <<"0", "0", "7">>,
      <<"1", "-", "2", "-", "3">>,
      <<"1", "-", "1", "0", ",", "x">>,
      <<"1", "-", "5", ":", "-", "2">>,
      <<"-", "1", "-", "-", "5", ":", "-", "2">>,
      <<"-", "1", "0", "-", "-", "1">> }

\* "2147483648": the smallest token above int32
AboveInt32 == <<"2", "1", "4", "7", "4", "8", "3", "6", "4", "8">>

\* "1-2000000000,1-2000000000"
TwoBillionTwice ==
    <<"1", "-", "2", "0", "0", "0", "0", "0", "0", "0", "0", "0", ",",
      "1", "-", "2", "0", "0", "0", "0", "0", "0", "0", "0", "0">>

\* expressions with tokens around the limits of int32, int64 and float64
BigExprs ==
    { <<"2", "1", "4", "7", "4", "8", "3", "6", "4", "7">>,
      AboveInt32,
      <<"9", "2", "2", "3", "3", "7", "2", "0", "3", "6", "8", "5", "4", "7", "7", "5", "8", "0", "7">>,
      <<"9", "2", "2", "3", "3", "7", "2", "0", "3", "6", "8", "5", "4", "7", "7", "5", "8", "0", "8">>,
      <<"9", "9", "9", "9", "9", "9", "9", "9", "9", "9", "9", "9", "9", "9", "9", "9", "9", "9", "9", "9">>,
      <<"1", "-", "9", "2", "2", "3", "3", "7", "2", "0", "3", "6", "8", "5", "4", "7", "7", "5", "8", "0", "8">>,
      <<"1", "-", "2", ":", "9", "2", "2", "3", "3", "7", "2", "0", "3", "6", "8", "5", "4", "7", "7", "5", "8", "0", "8">>,
      <<"1", "-", "2", "1", "4", "7", "4", "8", "3", "6", "4", "8">>,
      <<"1", "-", "5", ":", "2", "1", "4", "7", "4", "8", "3", "6", "4", "8">>,
      <<"0", "-", "9", "0", "0", "7", "1", "9", "9", "2", "5", "4", "7", "4", "0", "9", "9", "2">>,
      <<"1", "-", "9", "0", "0", "7", "1", "9", "9", "2", "5", "4", "7", "4", "0", "9", "9", "3">>,
      <<"1", "-", "9", "2", "2", "3", "3", "7", "2", "0", "3", "6", "8", "5", "4", "7", "7", "5", "8", "0", "7">>,
      TwoBillionTwice,
      <<"1", "-", "4", "6", "1", "1", "6", "8", "6", "0", "1", "8", "4", "2", "7", "3", "8", "7", "9", "0", "4", ",", "1", "-", "4", "6", "1", "1", "6", "8", "6", "0", "1", "8", "4", "2", "7", "3", "8", "7", "9", "0", "4">>,
      <<"9", "2", "2", "3", "3", "7", "2", "0", "3", "6", "8", "5", "4", "7", "7", "5", "8", "0", "8", "-", "1", "-", "2">>,
      <<"1", "-", "1", ":", "9", "2", "2", "3", "3", "7", "2", "0", "3", "6", "8", "5", "4", "7", "7", "5", "8", "0", "8", ":", "1">>,
      <<"1", "-", "a", ":", "9", "2", "2", "3", "3", "7", "2", "0", "3", "6", "8", "5", "4", "7", "7", "5", "8", "0", "8">> }

Exprs == ShortExprs \cup Examples \cup BigExprs

Pow2Z(k) == ZMk(FALSE, NPow2(k))

SmallVals == {Z(v) : v \in -MaxVal..MaxVal}

\* values around the limits of int32, float64's significand and int64
BigVals(w) ==
    {x \in {Z(10), Z(100), Pow2Z(30), MinInt(32), MaxInt(32),
            Pow2Z(MantBits), ZAdd(Pow2Z(MantBits), Z(1)),
            ZAdd(Pow2Z(MantBits + 1), Z(3)), Pow2Z(BitSize - 2),
            MinInt(BitSize), MaxInt(BitSize)} : FitsInt(x, w)}

\* the ranges of TestNumTasks
TestRanges ==
    { TaskIDRange(Z(1), Z(1), Z(1)),
      TaskIDRange(Z(1), Z(10), Z(1)),
      TaskIDRange(Z(1), Z(10), Z(2)),
      TaskIDRange(Z(1), Z(10), Z(3)),
      TaskIDRange(Z(6), Z(8), Z(1)) }

\* the TaskIDRange values NumTasks is called on (a JobInfo's JobArray is
\* decoded from XML: any three ints)
Ranges(w) ==
    {TaskIDRange(a, b, Z(c)) : a \in SmallVals, b \in SmallVals, c \in -1..MaxStep}
    \cup {TaskIDRange(a, b, c) : a \in {Z(0), Z(1)} \cup BigVals(w),
                                 b \in {Z(0), Z(1)} \cup BigVals(w),
                                 c \in {Z(1), Z(2), Z(3), Z(10), Pow2Z(30)}}
    \cup TestRanges

\* longest State string enumerated over StateChars
MaxState == 2

\* the letters of the state predicates, and one that is none of them
StateChars == {"d", "E", "h", "r", "R", "s", "S", "t", "T", "w", "q", "x"}

\* the State strings: short ones, and those of TestQueueInfo
States ==
    UNION {[1..n -> StateChars] : n \in 0..MaxState}
    \cup {<<"E", "q", "w">>, <<"h", "q", "w">>, <<"d", "r">>, <<"R", "r">>}

\* what running qstat can do
Runs ==
    {[kind |-> "ok", text |-> <<>>],
     [kind |-> "pipe", text |-> <<"exec: Stdout already set">>],
     [kind |-> "start",
      text |-> <<"exec: \"qstat\": executable file not found in $PATH">>]}
    \cup {[kind |-> "decode", text |-> t] :
            t \in {<<UnknownJobSyntaxError>>,
                   <<"XML syntax error on line 4: expected element name after <">>,
                   <<"XML syntax error on line 3: unexpected EOF">>,
                   <<"EOF">>,
                   <<"expected element type <job_info> but have <unknown_jobs>">>}}

\* the users GetQueueInfo is asked about
Users == {"", "*", "alice", "bob"}

\* the job patterns GetDetailedJobInfo is asked about
Patterns == {"", "*", "3050948", "nosuchjob"}

\* most rows a query gives before rows.Next() returns false
MaxRows == 3

\* the rows of the database: two that scan, and one with a NULL
Rows == {"row1", "row2", "NULL"}

\* the errors that stop an iteration
RowsErrs ==
    {SqlError("driver: bad connection"),
     SqlError("pq: canceling statement due to statement timeout")}

NoResultSet == [query |-> NilError, rows |-> <<>>, rowsErr |-> NilError]

\* what the database can do in a call
ResultSets ==
    {[query |-> SqlError("pq: syntax error at or near \"FROM\""),
      rows |-> <<>>, rowsErr |-> NilError]}
    \cup {[query |-> NilError, rows |-> rows, rowsErr |-> e] :
            rows \in UNION {[1..n -> Rows] : n \in 0..MaxRows},
            e \in {NilError} \cup RowsErrs}

VARIABLES
    intSize,    \* the width of int on this build
    pc,         \* "start", or the call that has returned
    s,          \* the string argument (for QueueJob's methods, j.Tasks or
                \* j.State)
    r,          \* the receiver of TaskIDRange.NumTasks
    fconv,      \* what the call's out-of-range float conversions give
    arg,        \* the argument of GetQueueInfo or GetDetailedJobInfo
    run,        \* what running qstat did in the call
    cmd,        \* the command the call ran
    q,          \* the pointer the call returned: "nil", or what it points to
    preds,      \* what the state predicates returned
    rs,         \* what the database did in the call
    recs,       \* the records the call returned
    ret         \* what the call returned

vars == <<intSize, pc, s, r, fconv, arg, run, cmd, q, preds, rs, recs, ret>>

NoRet == [r |-> ZeroRange, ranges |-> <<>>, n |-> Z(0), err |-> NilError]

NoRun == [kind |-> "none", text |-> <<>>]

Init ==
    /\ intSize \in IntSizes
    /\ pc = "start"
    /\ s = <<>>
    /\ r = ZeroRange
    /\ fconv = "none"
    /\ arg = ""
    /\ run = NoRun
    /\ cmd = <<>>
    /\ q = "nil"
    /\ preds = StatePredicates(<<>>)
    /\ rs = NoResultSet
    /\ recs = <<>>
    /\ ret = NoRet

CallNewTaskIDRange ==
    /\ pc = "start"
    /\ \E x \in Exprs :
        LET res == NewTaskIDRange(x, intSize)
        IN  /\ s' = x
            /\ ret' = [NoRet EXCEPT !.r = res.r, !.err = res.err]
    /\ pc' = "NewTaskIDRange"
    /\ UNCHANGED <<intSize, r, fconv, arg, run, cmd, q, preds, rs, recs>>

CallParseTaskIDRanges ==
    /\ pc = "start"
    /\ \E x \in Exprs :
        LET res == ParseTaskIDRanges(x, intSize)
        IN  /\ s' = x
            /\ ret' = [NoRet EXCEPT !.ranges = res.ranges, !.err = res.err]
    /\ pc' = "ParseTaskIDRanges"
    /\ UNCHANGED <<intSize, r, fconv, arg, run, cmd, q, preds, rs, recs>>

CallQueueJobNumTasks ==
    /\ pc = "start"
    /\ \E x \in Exprs, fc \in FConvs :
        /\ s' = x
        /\ fconv' = fc
        /\ ret' = [NoRet EXCEPT !.n = QueueJobNumTasks(x, intSize, fc)]
    /\ pc' = "QueueJob.NumTasks"
    /\ UNCHANGED <<intSize, r, arg, run, cmd, q, preds, rs, recs>>

CallNumTasks ==
    /\ pc = "start"
    /\ \E x \in Ranges(intSize), fc \in FConvs :
        /\ r' = x
        /\ fconv' = fc
        /\ ret' = [NoRet EXCEPT !.n = NumTasks(x, intSize, fc)]
    /\ pc' = "TaskIDRange.NumTasks"
    /\ UNCHANGED <<intSize, s, arg, run, cmd, q, preds, rs, recs>>

CallStatePredicates ==
    /\ pc = "start"
    /\ \E x \in States :
        /\ s' = x
        /\ preds' = StatePredicates(x)
    /\ pc' = "QueueJob.State"
    /\ UNCHANGED <<intSize, r, fconv, arg, run, cmd, q, rs, recs, ret>>

CallGetDetailedJobInfo ==
    /\ pc = "start"
    /\ \E pattern \in Patterns, x \in Runs :
        LET res == GetDetailedJobInfo(pattern, x)
        IN  /\ arg' = pattern
            /\ run' = x
            /\ cmd' = res.cmd
            /\ q' = res.q
            /\ ret' = [NoRet EXCEPT !.err = res.err]
    /\ pc' = "GetDetailedJobInfo"
    /\ UNCHANGED <<intSize, s, r, fconv, preds, rs, recs>>

CallGetQueueInfo ==
    /\ pc = "start"
    /\ \E u \in Users, x \in Runs :
        LET res == GetQueueInfo(u, x)
        IN  /\ arg' = u
            /\ run' = x
            /\ cmd' = res.cmd
            /\ q' = res.q
            /\ ret' = [NoRet EXCEPT !.err = res.err]
    /\ pc' = "GetQueueInfo"
    /\ UNCHANGED <<intSize, s, r, fconv, preds, rs, recs>>

CallQueryAccounting ==
    /\ pc = "start"
    /\ \E x \in ResultSets :
        LET res == QueryAccounting(x)
        IN  /\ rs' = x
            /\ recs' = res.list
            /\ ret' = [NoRet EXCEPT !.err = res.err]
    /\ pc' = "DB.QueryAccounting"
    /\ UNCHANGED <<intSize, s, r, fconv, arg, run, cmd, q, preds>>

CallQueryAccountingTimes ==
    /\ pc = "start"
    /\ \E x \in ResultSets :
        LET res == QueryAccountingTimes(x)
        IN  /\ rs' = x
            /\ recs' = res.list
            /\ ret' = [NoRet EXCEPT !.err = res.err]
    /\ pc' = "DB.QueryAccountingTimes"
    /\ UNCHANGED <<intSize, s, r, fconv, arg, run, cmd, q, preds>>

CallQueryLogs ==
    /\ pc = "start"
    /\ \E x \in ResultSets :
        LET res == QueryLogs(x)
        IN  /\ rs' = x
            /\ recs' = res.list
            /\ ret' = [NoRet EXCEPT !.err = res.err]
    /\ pc' = "DB.QueryLogs"
    /\ UNCHANGED <<intSize, s, r, fconv, arg, run, cmd, q, preds>>

Next ==
    \/ CallNewTaskIDRange
    \/ CallParseTaskIDRanges
    \/ CallQueueJobNumTasks
    \/ CallNumTasks
    \/ CallStatePredicates
    \/ CallGetDetailedJobInfo
    \/ CallGetQueueInfo
    \/ CallQueryAccounting
    \/ CallQueryAccountingTimes
    \/ CallQueryLogs

Spec == Init /\ [][Next]_vars

(***************************************************************************)
(* The vocabulary of the properties: expressions read as the grammar       *)
(* "N", "N-M", "N-M:S" reads them, and exact integer arithmetic.           *)
(***************************************************************************)
\* how many times the character c occurs in str
Count(str, c) == Cardinality({i \in 1..Len(str) : str[i] = c})

\* the position of the first c in str, or 0
First(str, c) ==
    IF Count(str, c) = 0 THEN 0
    ELSE CHOOSE i \in 1..Len(str) :
            str[i] = c /\ \A j \in 1..(i - 1) : str[j] # c

\* the part of str before its first c (all of str when it holds none)
Before(str, c) ==
    IF First(str, c) = 0 THEN str ELSE SubSeq(str, 1, First(str, c) - 1)

\* the part of str after its first c (empty when it holds none)
After(str, c) ==
    IF First(str, c) = 0 THEN <<>>
    ELSE SubSeq(str, First(str, c) + 1, Len(str))

MinToken(str) == Before(str, "-")

TailOf(str) == After(str, "-")

HasMax(str) == Count(str, "-") >= 1

MaxToken(str) == Before(TailOf(str), ":")

HasStep(str) == Count(TailOf(str), ":") >= 1

StepToken(str) == After(TailOf(str), ":")

\* at most one "-", and at most one ":" after it
OneRange(str) == Count(str, "-") <= 1 /\ Count(TailOf(str), ":") <= 1

\* an unsigned decimal token
IsDecimal(tok) == tok # <<>> /\ \A i \in 1..Len(tok) : IsDigit(tok[i])

\* a base-10 integer: an unsigned decimal token, or one after a sign
IsInteger(tok) ==
    \/ IsDecimal(tok)
    \/ tok # <<>> /\ tok[1] \in {"+", "-"} /\ IsDecimal(Tail(tok))

\* the number the first i digits of an unsigned decimal token denote
RECURSIVE DenotesRec(_, _)
DenotesRec(tok, i) ==
    IF i = 0 THEN Z(0)
    ELSE The({ ZAdd(ZMk(FALSE, NAdd(NShl(v.mag, 3), NShl(v.mag, 1))),
                    Z(DigitVal(tok[i])))
               : v \in {DenotesRec(tok, i - 1)} })

Denotes(tok) == DenotesRec(tok, Len(tok))

\* the number a base-10 integer denotes
IntegerOf(tok) ==
    IF tok[1] = "-" THEN ZNeg(Denotes(Tail(tok)))
    ELSE IF tok[1] = "+" THEN Denotes(Tail(tok))
    ELSE Denotes(tok)

\* a base-10 integer that an int64 holds
IsInt64(tok) == IsInteger(tok) /\ FitsInt(IntegerOf(tok), BitSize)

\* "N", "N-M" or "N-M:S" with unsigned decimal tokens
WellFormed(str) ==
    /\ OneRange(str)
    /\ IsDecimal(MinToken(str))
    /\ HasMax(str) => IsDecimal(MaxToken(str))
    /\ HasStep(str) => IsDecimal(StepToken(str))

\* the triple a well-formed expression denotes
Denoted(str) ==
    TaskIDRange(Denotes(MinToken(str)),
                IF HasMax(str) THEN Denotes(MaxToken(str))
                ELSE Denotes(MinToken(str)),
                IF HasStep(str) THEN Denotes(StepToken(str)) ELSE Z(1))

\* the blank expression, or one range whose tokens are integers an int64 holds
Accepted(str) ==
    \/ str = <<>>
    \/ /\ OneRange(str)
       /\ IsInt64(MinToken(str))
       /\ HasMax(str) => IsInt64(MaxToken(str))
       /\ HasStep(str) => IsInt64(StepToken(str))

\* the comma-separated segments of a Tasks string
Segments(str) == Split(str, ",")

AllSegmentsAccepted(str) ==
    \A i \in 1..Len(Segments(str)) : Accepted(Segments(str)[i])

\* ceiling of a / b, for b > 0
ZCeilDiv(a, b) ==
    The({ IF a.neg THEN ZMk(TRUE, qr[1])
          ELSE IF qr[2] = <<>> THEN ZMk(FALSE, qr[1])
          ELSE ZMk(FALSE, NAdd(qr[1], <<1>>))
          : qr \in {NDivMod(a.mag, b.mag)} })

\* floor of a / b, for a >= 0 and b > 0
ZFloorDiv(a, b) == ZMk(FALSE, NDivMod(a.mag, b.mag)[1])

\* the sum, over segments i.. of a Tasks string, of NumTasks of the range
\* the segment parses to
RECURSIVE SumOfNumTasks(_, _, _, _)
SumOfNumTasks(segs, i, w, fc) ==
    IF i > Len(segs) THEN Z(0)
    ELSE ZAdd(NumTasks(NewTaskIDRange(segs[i], w).r, w, fc),
              SumOfNumTasks(segs, i + 1, w, fc))

\* the texts of the errors
TextInvalidMin == "could not parse: invalid min (%s)"

TextInvalidMax == "could not parse: invalid max (%s)"

TextInvalidStep == "could not parse: invalid step (%s)"

TextMalformedRange == "could not parse: too many elements in parts split"

TextMalformedStep == "could not parse: too many elements in step split"

(***************************************************************************)
(* C1.  NewTaskIDRange on well-formed expressions.                         *)
(***************************************************************************)
\* C1: for every well-formed expression made of unsigned decimal tokens,
\* NewTaskIDRange returns no error and the triple the grammar denotes: "N"
\* gives {N, N, 1}, "N-M" gives {N, M, 1} and "N-M:S" gives {N, M, S}.
C1_WellFormedGivesDenoted ==
    (pc = "NewTaskIDRange" /\ WellFormed(s))
        => (ret.err = NilError /\ ret.r = Denoted(s))

\* C1: on a build with 32-bit ints "2147483648" is accepted and comes back
\* as {-2147483648, -2147483648, 1}
C1_TruncatedToInt32 ==
    /\ pc = "NewTaskIDRange"
    /\ intSize = 32
    /\ s = AboveInt32
    /\ ret.err = NilError
    /\ ret.r = TaskIDRange(MinInt(32), MinInt(32), Z(1))

(***************************************************************************)
(* C2, C3.  TaskIDRange.NumTasks.                                          *)
(***************************************************************************)
\* C2: for every TaskIDRange with Step >= 1, whatever Min and Max,
\* NumTasks returns exactly the ceiling of (Max - Min + 1) / Step.
C2_NumTasksIsCeiling ==
    (pc = "TaskIDRange.NumTasks" /\ ZLe(Z(1), r.Step))
        => ret.n = ZCeilDiv(ZAdd(ZSub(r.Max, r.Min), Z(1)), r.Step)

\* C2: NumTasks of {0, 2^53, 1} is 2^53, one less than the ceiling
C2_CeilingMissedByOne ==
    /\ pc = "TaskIDRange.NumTasks"
    /\ r = TaskIDRange(Z(0), Pow2Z(MantBits), Z(1))
    /\ ret.n = Pow2Z(MantBits)

\* C3: for every TaskIDRange with Step >= 1 and Min <= Max, NumTasks is the
\* number of identifiers Min + k * Step, k >= 0, that are at most Max.
C3_NumTasksIsCount ==
    (pc = "TaskIDRange.NumTasks" /\ ZLe(Z(1), r.Step) /\ ZLe(r.Min, r.Max))
        => ret.n = ZAdd(ZFloorDiv(ZSub(r.Max, r.Min), r.Step), Z(1))

\* C3: NumTasks of {1, 2^63 - 1, 1}, a range of 2^63 - 1 identifiers, is the
\* smallest int64
C3_CountNegative ==
    /\ pc = "TaskIDRange.NumTasks"
    /\ r = TaskIDRange(Z(1), MaxInt(BitSize), Z(1))
    /\ ret.n = MinInt(BitSize)

(***************************************************************************)
(* C4, C5, C6.  QueueJob.NumTasks.                                         *)
(***************************************************************************)
\* C4: for every Tasks string in which every comma-separated segment
\* parses, QueueJob.NumTasks returns the sum of NumTasks over the ranges
\* parsed from the segments (overlapping segments are counted twice).
C4_NumTasksIsSum ==
    (pc = "QueueJob.NumTasks" /\ AllSegmentsAccepted(s))
        => ret.n = SumOfNumTasks(Segments(s), 1, intSize, fconv)

\* C4: on a build with 32-bit ints the tasks of "1-2000000000,1-2000000000"
\* number -294967296
C4_SumWrapped ==
    /\ pc = "QueueJob.NumTasks"
    /\ intSize = 32
    /\ s = TwoBillionTwice
    /\ ret.n = ZNeg(Z(294967296))

\* C5: for every Tasks string in which at least one comma-separated segment
\* fails to parse, QueueJob.NumTasks returns exactly 1, whatever the other
\* segments denote (its only result is the number: it reports no error).
C5_UnparsableCountsAsOne ==
    (pc = "QueueJob.NumTasks" /\ ~AllSegmentsAccepted(s)) => ret.n = Z(1)

\* C5: "1-10,x", whose first segment denotes ten tasks, counts as one
C5_TenTasksLost ==
    /\ pc = "QueueJob.NumTasks"
    /\ s = <<"1", "-", "1", "0", ",", "x">>
    /\ ret.n = Z(1)

\* C6: NewTaskIDRange("") returns {1, 1, 1} and no error, and a QueueJob
\* whose Tasks is empty has NumTasks() = 1.
C6_BlankIsOneTask ==
    /\ (pc = "NewTaskIDRange" /\ s = <<>>)
        => (ret.err = NilError /\ ret.r = TaskIDRange(Z(1), Z(1), Z(1)))
    /\ (pc = "QueueJob.NumTasks" /\ s = <<>>) => ret.n = Z(1)

\* C6: NewTaskIDRange has returned {1, 1, 1} for the blank expression
C6_BlankParsed ==
    /\ pc = "NewTaskIDRange"
    /\ s = <<>>
    /\ ret.r = TaskIDRange(Z(1), Z(1), Z(1))

(***************************************************************************)
(* C7 .. C10.  The errors of NewTaskIDRange.                               *)
(***************************************************************************)
\* C7: NewTaskIDRange returns an error for every expression with two or
\* more "-", and for every expression with exactly one "-" and two or more
\* ":" after it.
C7_TooManySeparatorsFail ==
    (/\ pc = "NewTaskIDRange"
     /\ \/ Count(s, "-") >= 2
        \/ Count(s, "-") = 1 /\ Count(TailOf(s), ":") >= 2)
        => ret.err # NilError

\* C7: "1--10" has been refused
C7_DoubleDashRefused ==
    /\ pc = "NewTaskIDRange"
    /\ s = <<"1", "-", "-", "1", "0">>
    /\ ret.err # NilError

\* C8, as stated: every expression with more than one "-" fails with
\* MalformedRange ("too many elements in parts split"), whatever its tokens.
C8_ManyDashesMalformedRange ==
    (pc = "NewTaskIDRange" /\ Count(s, "-") > 1)
        => ret.err = Errorf(TextMalformedRange, <<>>)

\* C8, amended: an expression with more than one "-" fails with
\* MalformedRange when the token before its first "-" is an integer an int64
\* holds, and with InvalidMin, naming that token, when it is not.
C8_ManyDashesAfterMin ==
    (pc = "NewTaskIDRange" /\ Count(s, "-") > 1)
        => ret.err = IF IsInt64(MinToken(s))
                     THEN Errorf(TextMalformedRange, <<>>)
                     ELSE Errorf(TextInvalidMin, MinToken(s))

\* C8: "1-2-3" has failed with MalformedRange
C8_ThreePartsRefused ==
    /\ pc = "NewTaskIDRange"
    /\ s = <<"1", "-", "2", "-", "3">>
    /\ ret.err.format = TextMalformedRange

\* C9, as stated: every expression with exactly one "-" and more than one
\* ":" after it fails with MalformedStep ("too many elements in step
\* split"), whatever its tokens.
C9_ManyColonsMalformedStep ==
    (pc = "NewTaskIDRange" /\ Count(s, "-") = 1 /\ Count(TailOf(s), ":") > 1)
        => ret.err = Errorf(TextMalformedStep, <<>>)

\* C9, amended: an expression with exactly one "-" and more than one ":"
\* after it fails with MalformedStep when the token before the "-" is an
\* integer an int64 holds, and with InvalidMin, naming that token, when it is
\* not.
C9_ManyColonsAfterMin ==
    (pc = "NewTaskIDRange" /\ Count(s, "-") = 1 /\ Count(TailOf(s), ":") > 1)
        => ret.err = IF IsInt64(MinToken(s))
                     THEN Errorf(TextMalformedStep, <<>>)
                     ELSE Errorf(TextInvalidMin, MinToken(s))

\* C9: "1-10:3:4" has failed with MalformedStep
C9_TwoColonsRefused ==
    /\ pc = "NewTaskIDRange"
    /\ s = <<"1", "-", "1", "0", ":", "3", ":", "4">>
    /\ ret.err.format = TextMalformedStep

\* C10, as stated: in an expression with at most one "-" and at most one
\* ":" after it, every token that is not a base-10 integer makes
\* NewTaskIDRange fail with the error of the token's own field, naming the
\* token: InvalidMin before "-", InvalidMax between "-" and ":", InvalidStep
\* after ":".
C10_ErrorOfOwnField ==
    (pc = "NewTaskIDRange" /\ s # <<>> /\ OneRange(s))
        => /\ ~IsInteger(MinToken(s))
                => ret.err = Errorf(TextInvalidMin, MinToken(s))
           /\ (HasMax(s) /\ ~IsInteger(MaxToken(s)))
                => ret.err = Errorf(TextInvalidMax, MaxToken(s))
           /\ (HasStep(s) /\ ~IsInteger(StepToken(s)))
                => ret.err = Errorf(TextInvalidStep, StepToken(s))

\* C10, amended: in a nonempty expression with at most one "-" and at most
\* one ":" after it, NewTaskIDRange fails with the error of the first token,
\* in the order min, step, max, that is not an integer an int64 holds, naming
\* that token; it returns no error when there is none.
C10_ErrorOfFirstUnparsed ==
    (pc = "NewTaskIDRange" /\ s # <<>> /\ OneRange(s))
        => ret.err =
            IF ~IsInt64(MinToken(s)) THEN Errorf(TextInvalidMin, MinToken(s))
            ELSE IF HasStep(s) /\ ~IsInt64(StepToken(s))
            THEN Errorf(TextInvalidStep, StepToken(s))
            ELSE IF HasMax(s) /\ ~IsInt64(MaxToken(s))
            THEN Errorf(TextInvalidMax, MaxToken(s))
            ELSE NilError

\* C10: "1-x:y" has failed with InvalidStep naming "y", not with InvalidMax
C10_StepBeforeMax ==
    /\ pc = "NewTaskIDRange"
    /\ s = <<"1", "-", "x", ":", "y">>
    /\ ret.err = Errorf(TextInvalidStep, <<"y">>)

(***************************************************************************)
(* C11.  The error of ParseTaskIDRanges.                                   *)
(***************************************************************************)
\* the i-th comma-separated segment of str, counted from 1
RECURSIVE NthSegment(_, _)
NthSegment(str, i) ==
    IF i = 1 THEN Before(str, ",") ELSE NthSegment(After(str, ","), i - 1)

NumSegments(str) == Count(str, ",") + 1

\* the leftmost segment of str that is not accepted
LeftmostRefused(str) ==
    NthSegment(str, CHOOSE i \in 1..NumSegments(str) :
                        /\ ~Accepted(NthSegment(str, i))
                        /\ \A j \in 1..(i - 1) : Accepted(NthSegment(str, j)))

SomeSegmentRefused(str) ==
    \E i \in 1..NumSegments(str) : ~Accepted(NthSegment(str, i))

\* C11: ParseTaskIDRanges fails whenever a comma-separated segment fails to
\* parse; its error is the error NewTaskIDRange gives for the leftmost
\* failing segment, and the list of ranges it returns is empty.
C11_LeftmostErrorNoRanges ==
    (pc = "ParseTaskIDRanges" /\ SomeSegmentRefused(s))
        => /\ ret.err # NilError
           /\ ret.err = NewTaskIDRange(LeftmostRefused(s), intSize).err
           /\ ret.ranges = <<>>

\* C11: "1,a" has failed with the error of "a", and "1" was not returned
C11_SecondSegmentRefused ==
    /\ pc = "ParseTaskIDRanges"
    /\ s = <<"1", ",", "a">>
    /\ ret.err = Errorf(TextInvalidMin, <<"a">>)
    /\ ret.ranges = <<>>

(***************************************************************************)
(* C12, C13.  What NewTaskIDRange accepts.                                 *)
(***************************************************************************)
\* C12: every TaskIDRange that NewTaskIDRange or ParseTaskIDRanges returns
\* without an error has Step >= 1.
C12_StepAtLeastOne ==
    /\ (pc = "NewTaskIDRange" /\ ret.err = NilError) => ZLe(Z(1), ret.r.Step)
    /\ (pc = "ParseTaskIDRanges" /\ ret.err = NilError)
        => \A i \in 1..Len(ret.ranges) : ZLe(Z(1), ret.ranges[i].Step)

\* C12: "1-10:0" has been accepted as {1, 10, 0}
C12_StepZeroAccepted ==
    /\ pc = "NewTaskIDRange"
    /\ s = <<"1", "-", "1", "0", ":", "0">>
    /\ ret.err = NilError
    /\ ret.r = TaskIDRange(Z(1), Z(10), Z(0))

\* a decimal token written with a leading minus sign
IsNegative(tok) == tok # <<>> /\ tok[1] = "-" /\ IsDecimal(Tail(tok))

IsSigned(tok) == IsDecimal(tok) \/ IsNegative(tok)

\* the ways to read str as "N", "N-M" or "N-M:S" with tokens that are
\* decimal numbers, negative ones included: the tuples of tokens
Readings(str) ==
    {<<str>> : k \in {k \in {1} : IsSigned(str)}}
    \cup {<<SubSeq(str, 1, i - 1), SubSeq(str, i + 1, Len(str))>> :
            i \in {i \in 1..Len(str) :
                    /\ str[i] = "-"
                    /\ IsSigned(SubSeq(str, 1, i - 1))
                    /\ IsSigned(SubSeq(str, i + 1, Len(str)))}}
    \cup {<<SubSeq(str, 1, ij[1] - 1), SubSeq(str, ij[1] + 1, ij[2] - 1),
            SubSeq(str, ij[2] + 1, Len(str))>> :
            ij \in {ij \in (1..Len(str)) \X (1..Len(str)) :
                    /\ ij[1] < ij[2]
                    /\ str[ij[1]] = "-"
                    /\ str[ij[2]] = ":"
                    /\ IsSigned(SubSeq(str, 1, ij[1] - 1))
                    /\ IsSigned(SubSeq(str, ij[1] + 1, ij[2] - 1))
                    /\ IsSigned(SubSeq(str, ij[2] + 1, Len(str)))}}

\* the triple a reading denotes
ReadingValue(d) ==
    TaskIDRange(IntegerOf(d[1]),
                IF Len(d) >= 2 THEN IntegerOf(d[2]) ELSE IntegerOf(d[1]),
                IF Len(d) = 3 THEN IntegerOf(d[3]) ELSE Z(1))

\* str reads as a range expression with a negative min, max or step token
HasNegativeToken(str) ==
    \E d \in Readings(str) : \E k \in 1..Len(d) : IsNegative(d[k])

\* C13, as stated: NewTaskIDRange succeeds on expressions whose min, max or
\* step token is a negative decimal integer, and returns the numbers the
\* tokens denote ("-5" gives {-5, -5, 1}).
C13_NegativeTokensParse ==
    (pc = "NewTaskIDRange" /\ HasNegativeToken(s))
        => /\ ret.err = NilError
           /\ \E d \in Readings(s) : ret.r = ReadingValue(d)

\* C13, amended: NewTaskIDRange fails on every expression whose min, max or
\* step token is written with a leading minus sign, because every "-" is
\* taken as the separator of min and max: with InvalidMin, naming the text
\* before the first "-", when that text is no integer an int64 holds (it is
\* empty when min is the negative token), and with MalformedRange otherwise.
C13_MinusIsSeparator ==
    (pc = "NewTaskIDRange" /\ HasNegativeToken(s))
        => ret.err = IF IsInt64(MinToken(s))
                     THEN Errorf(TextMalformedRange, <<>>)
                     ELSE Errorf(TextInvalidMin, MinToken(s))

\* C13: "-5" has failed with InvalidMin naming the empty token
C13_MinusFiveRefused ==
    /\ pc = "NewTaskIDRange"
    /\ s = <<"-", "5">>
    /\ ret.err = Errorf(TextInvalidMin, <<>>)

(***************************************************************************)
(* C14, C15.  NumTasks on descending and on ascending ranges.              *)
(***************************************************************************)
\* below 2^(MantBits - 1) in magnitude: sums and differences of two such
\* numbers are float64 values
IsExact(z) ==
    ZLt(ZNeg(Pow2Z(MantBits - 1)), z) /\ ZLt(z, Pow2Z(MantBits - 1))

\* the ceiling of (Max - Min + 1) / Step
CeilingOf(x) == ZCeilDiv(ZAdd(ZSub(x.Max, x.Min), Z(1)), x.Step)

C15_IntegerFormulaAgrees ==
    (pc = "TaskIDRange.NumTasks" /\ ZLe(Z(1), r.Step) /\ ZLe(r.Min, r.Max))
        => ret.n = ZFloorDiv(ZAdd(ZSub(r.Max, r.Min), r.Step), r.Step)

\* C15: NumTasks of {1, 2^53 + 1, 1} is 2^53, where the integer formula
\* gives 2^53 + 1
C15_IntegerFormulaDiffers ==
    /\ pc = "TaskIDRange.NumTasks"
    /\ r = TaskIDRange(Z(1), ZAdd(Pow2Z(MantBits), Z(1)), Z(1))
    /\ ret.n = Pow2Z(MantBits)


(***************************************************************************)
(* C16                                                                     *)
(***************************************************************************)
\* the user filter of a qstat command: the argument after "-u"
UserFilter(command) ==
    {command[i + 1] : i \in {j \in 1..(Len(command) - 1) : command[j] = "-u"}}

\* C16: GetQueueInfo called with u = "" does not pass the all-users
\* wildcard "*" after "-u"; only a call with u = "*" passes it.
C16_EmptyUserIsCurrentUser ==
    pc = "GetQueueInfo" =>
        /\ arg = "" => "*" \notin UserFilter(cmd)
        /\ "*" \in UserFilter(cmd) => arg = "*"

\* GetQueueInfo("") has run qstat -xml -pri -ext -urg -u *
C16_EmptyUserAsksForAll ==
    /\ pc = "GetQueueInfo"
    /\ arg = ""
    /\ cmd = <<"qstat", "-xml", "-pri", "-ext", "-urg", "-u", "*">>


(***************************************************************************)
(* C17                                                                     *)
(***************************************************************************)
\* the letter of each state predicate
LetterOf ==
    [DeletionState       |-> "d",
     ErrorState          |-> "E",
     HoldState           |-> "h",
     RunningState        |-> "r",
     RestartedState      |-> "R",
     SuspendedState      |-> "s",
     QueueSuspendedState |-> "S",
     TransferringState   |-> "t",
     ThresholdState      |-> "T",
     WaitingState        |-> "w",
     QueuedState         |-> "q"]

\* the predicates that returned true
TruePredicates == {p \in DOMAIN preds : preds[p]}

\* C17: each state predicate returns true if and only if the State string
\* holds the predicate's own letter, in that case; so State "r" makes only
\* RunningState true and State "Eqw" makes exactly ErrorState, QueuedState
\* and WaitingState true.
C17_PredicateIffOwnLetter ==
    pc = "QueueJob.State" =>
        /\ DOMAIN preds = DOMAIN LetterOf
        /\ \A p \in DOMAIN LetterOf : preds[p] <=> Count(s, LetterOf[p]) > 0
        /\ s = <<"r">> => TruePredicates = {"RunningState"}
        /\ s = <<"E", "q", "w">> =>
            TruePredicates = {"ErrorState", "QueuedState", "WaitingState"}

\* a restarted job that is not running: only RestartedState is true
C17_RestartedNotRunning ==
    /\ pc = "QueueJob.State"
    /\ s = <<"R">>
    /\ TruePredicates = {"RestartedState"}

\* the pending job of TestQueueInfo
C17_PendingJobInError ==
    /\ pc = "QueueJob.State"
    /\ s = <<"E", "q", "w">>
    /\ TruePredicates = {"ErrorState", "QueuedState", "WaitingState"}


(***************************************************************************)
(* C18                                                                     *)
(***************************************************************************)
\* the text of the first failure of str in the order min, count of "-",
\* count of ":", step, max; "" when nothing fails
FirstFailure(str) ==
    IF str = <<>> THEN ""
    ELSE IF ~IsInt64(MinToken(str)) THEN TextInvalidMin
    ELSE IF Count(str, "-") > 1 THEN TextMalformedRange
    ELSE IF Count(TailOf(str), ":") > 1 THEN TextMalformedStep
    ELSE IF HasStep(str) /\ ~IsInt64(StepToken(str)) THEN TextInvalidStep
    ELSE IF HasMax(str) /\ ~IsInt64(MaxToken(str)) THEN TextInvalidMax
    ELSE ""

\* C18: NewTaskIDRange reports the first failure in the order: min token,
\* count of "-", count of ":", step token, max token; so "a-1-2" and "-1-5"
\* report InvalidMin and "1-x:y" reports InvalidStep.
C18_FirstFailureInOrder ==
    pc = "NewTaskIDRange" =>
        /\ ret.err.nil <=> FirstFailure(s) = ""
        /\ ~ret.err.nil => ret.err.format = FirstFailure(s)
        /\ s \in {<<"a", "-", "1", "-", "2">>, <<"-", "1", "-", "5">>} =>
            ret.err.format = TextInvalidMin
        /\ s = <<"1", "-", "x", ":", "y">> => ret.err.format = TextInvalidStep

\* "a-1-2" has a bad min and two "-": InvalidMin is reported
C18_BadMinBeforeDashCount ==
    /\ pc = "NewTaskIDRange"
    /\ s = <<"a", "-", "1", "-", "2">>
    /\ ~IsInt64(MinToken(s))
    /\ Count(s, "-") > 1
    /\ ret.err.format = TextInvalidMin


(***************************************************************************)
(* C19                                                                     *)
(***************************************************************************)
\* str is made of commas only
OnlyCommas(str) == \A i \in 1..Len(str) : str[i] = ","

\* C19: when ParseTaskIDRanges succeeds on a string with k commas it returns
\* k+1 ranges, the i-th being the parse of the i-th segment; an empty segment
\* yields {1, 1, 1}, so QueueJob.NumTasks counts one task for it: k+1 for a
\* string of k commas, and 4 for "6-8,".
C19_OneRangePerSegment ==
    /\ (pc = "ParseTaskIDRanges" /\ ret.err.nil) =>
        /\ Len(ret.ranges) = Count(s, ",") + 1
        /\ \A i \in 1..(Count(s, ",") + 1) :
            /\ ret.ranges[i] = NewTaskIDRange(NthSegment(s, i), intSize).r
            /\ NthSegment(s, i) = <<>> =>
                ret.ranges[i] = TaskIDRange(Z(1), Z(1), Z(1))
    /\ (pc = "QueueJob.NumTasks" /\ OnlyCommas(s)) =>
        ret.n = Z(Count(s, ",") + 1)
    /\ (pc = "QueueJob.NumTasks" /\ s = <<"6", "-", "8", ",">>) => ret.n = Z(4)

\* "1,,": three ranges, the last two {1, 1, 1} for the empty segments
C19_DoubledCommaParsed ==
    /\ pc = "ParseTaskIDRanges"
    /\ s = <<"1", ",", ",">>
    /\ ret.err.nil
    /\ ret.ranges = <<TaskIDRange(Z(1), Z(1), Z(1)),
                      TaskIDRange(Z(1), Z(1), Z(1)),
                      TaskIDRange(Z(1), Z(1), Z(1))>>

\* "6-8," counts 4 tasks
C19_TrailingCommaCounted ==
    /\ pc = "QueueJob.NumTasks"
    /\ s = <<"6", "-", "8", ",">>
    /\ ret.n = Z(4)


(***************************************************************************)
(* C20                                                                     *)
(***************************************************************************)
\* Qstat failed in the call
QstatFailed == run.kind \in {"pipe", "start", "decode"}

\* the error Qstat returned in the call
QstatError ==
    [nil    |-> FALSE,
     format |-> CASE run.kind = "pipe"   -> "qstat: could not get stdout: %s"
                  [] run.kind = "start"  -> "qstat: could not start qstat: %s"
                  [] run.kind = "decode" -> "qstat: could not decode output: %s"
                  [] OTHER               -> "",
     arg    |-> run.text]

\* the text of the error of Qstat holds the message of the unknown job
SaysUnknownJob ==
    \E i \in 1..Len(run.text) : run.text[i] = UnknownJobSyntaxError

\* C20: whenever Qstat fails GetDetailedJobInfo returns a nil result and a
\* non-nil error: "qstat: unknown job: <pattern>" if the text of the Qstat
\* error holds "XML syntax error on line 3: expected element name after <",
\* the Qstat error unchanged otherwise; it returns a non-nil result with a nil
\* error only when Qstat succeeds.
C20_NilResultOnQstatError ==
    pc = "GetDetailedJobInfo" =>
        /\ QstatFailed =>
            /\ q = "nil"
            /\ ~ret.err.nil
            /\ IF SaysUnknownJob
               THEN ErrorText(ret.err) = <<"qstat: unknown job: ", arg>>
               ELSE ret.err = QstatError
        /\ (q # "nil" /\ ret.err.nil) => run.kind = "ok"
        /\ run.kind = "ok" => (q # "nil" /\ ret.err.nil)

\* qstat -j nosuchjob wrote the XML of an unknown job: the error names the
\* pattern
C20_UnknownJobReported ==
    /\ pc = "GetDetailedJobInfo"
    /\ arg = "nosuchjob"
    /\ cmd = <<"qstat", "-xml", "-j", "nosuchjob">>
    /\ run = [kind |-> "decode", text |-> <<UnknownJobSyntaxError>>]
    /\ q = "nil"
    /\ ret.err = Errorf("qstat: unknown job: %s", <<"nosuchjob">>)

\* another decoding error is returned as Qstat made it
C20_OtherErrorUnchanged ==
    /\ pc = "GetDetailedJobInfo"
    /\ run = [kind |-> "decode", text |-> <<"EOF">>]
    /\ q = "nil"
    /\ ErrorText(ret.err) = <<"qstat: could not decode output: ", "EOF">>


(***************************************************************************)
(* C21                                                                     *)
(***************************************************************************)
\* the query was accepted, every row given was scanned, and the iteration
\* stopped on an error: rows.Err() is not nil after the loop
IterationFailed ==
    /\ rs.query.nil
    /\ \A i \in 1..Len(rs.rows) : rs.rows[i] # "NULL"
    /\ ~rs.rowsErr.nil

\* C21: QueryAccounting, QueryAccountingTimes and QueryLogs return a non-nil
\* error whenever the iteration over the rows stops because of an error, so
\* that no caller receives a truncated list of rows with a nil error.
C21_IterationErrorReturned ==
    (pc \in {"DB.QueryAccounting", "DB.QueryAccountingTimes", "DB.QueryLogs"}
        /\ IterationFailed) => ~ret.err.nil

\* the same of the two accounting queries alone, which return rows.Err()
C21_AccountingQueriesReturnIt ==
    (pc \in {"DB.QueryAccounting", "DB.QueryAccountingTimes"}
        /\ IterationFailed) => (ret.err = rs.rowsErr /\ ~ret.err.nil)

\* QueryLogs has returned the one row read before the connection broke, and
\* a nil error
C21_TruncatedLogsNoError ==
    /\ pc = "DB.QueryLogs"
    /\ rs = [query   |-> NilError,
             rows    |-> <<"row1">>,
             rowsErr |-> SqlError("driver: bad connection")]
    /\ recs = <<"row1">>
    /\ ret.err.nil

=============================================================================
